---- MODULE Spec2Model ----
(***************************************************************************)
(* Model of the intermediate stage of the container bootstrap              *)
(* (src/process/intermediate.rs): container_intermediate and               *)
(* apply_cgroups, together with the two processes it talks to over pipes   *)
(* (the main process and the forked init process).                         *)
(***************************************************************************)
EXTENDS Integers, Sequences, FiniteSets, TLC

\* ------------------------------------------------------------------ bounds
\* number of rlimits a specification carries at most
MaxRlimits == 2
\* process ids range over 1..MaxPid (1 is the first process of a pid namespace)
MaxPid == 3
\* pid limits range over -LimitBound..LimitBound, and the limit of the tests
LimitBound == 30

VARIABLES
    args,           \* ContainerArgs and the parts of the spec the code reads
    pc,             \* position of the intermediate process
    failedAt,       \* the step whose failure ended the run ("" while none)
    trace,          \* operations the intermediate has performed, in order
    dumpable,       \* process-wide dumpable flag of the intermediate
    id,             \* <<uid, gid>> of the intermediate
    rlimitsSet,     \* number of rlimits applied so far
    inPidNs,        \* the intermediate has entered the pid namespace
    add_task_args,  \* cgroup manager: pids handed to add_task, in order
    apply_called,   \* cgroup manager: number of apply calls
    mainChan,       \* messages written to the main channel, in order
    interChan,      \* messages in flight on the intermediate channel
    open,           \* channel endpoints each process holds open
    myPid,          \* pid of the intermediate (Process::myself)
    forkPid,        \* value returned by container_fork (0 before the fork)
    initSelfPid,    \* pid the init process sees for itself (0 before the fork)
    initPc,         \* position of the init process
    mainAcked,      \* main has answered the mapping request
    pidsIn,         \* pid controller: arguments of Controller::apply
    pidsPc,         \* pid controller: position inside Controller::apply
    pidsFailedAt,   \* pid controller: the step that failed ("" while none)
    dirExists,      \* the cgroup directory exists
    pidsMax,        \* content of <cgroup_root>/pids.max
    cgroupProcs,    \* content last written to <cgroup_root>/cgroup.procs
    pidsLog         \* filesystem effects of the pid controller, in order

\* the state of the pid controller and of its cgroup directory
pidsVars == <<pidsIn, pidsPc, pidsFailedAt, dirExists, pidsMax, cgroupProcs, pidsLog>>

vars == <<args, pc, failedAt, trace, dumpable, id, rlimitsSet, inPidNs,
          add_task_args, apply_called, mainChan, interChan, open, myPid,
          forkPid, initSelfPid, initPc, mainAcked, pidsVars>>

\* ------------------------------------------------------------- data model
\* a namespace of the spec: not requested, requested without a path (created),
\* or requested with a path (joined)
NsKinds == {"none", "new", "path"}

\* identity of an unprivileged user outside the user namespace
OuterId == <<1000, 1000>>
RootId == <<0, 0>>

Procs == {"main", "inter", "init"}

ArgsSet ==
    [ linux     : BOOLEAN,          \* spec.linux() is Some
      process   : BOOLEAN,          \* spec.process() is Some
      userNs    : NsKinds,          \* namespaces.get(User)
      pidNs     : NsKinds,          \* namespaces.get(Pid)
      nRlimits  : 0..MaxRlimits,    \* proc.rlimits()
      rootless  : BOOLEAN,          \* args.rootless.is_some()
      resources : BOOLEAN,          \* linux.resources() is Some
      init      : BOOLEAN ]         \* args.init

\* messages of the channel protocol
MappingRequestMsg == [kind |-> "IdentifierMappingRequest", pid |-> 0]
MappingAckMsg == "MappingAck"
InitReadyMsg == "InitReady"
IntermediateReadyMsg(p) == [kind |-> "IntermediateReady", pid |-> p]

\* --------------------------------------------------------------- channels
\* a pipe can be written while some process holds its read end
HasReader(o, recv) == \E p \in Procs : recv \in o[p]
\* a blocking read reports end-of-file once no process holds a write end
HasWriter(o, send) == \E p \in Procs : send \in o[p]

\* result of a blocking read of the intermediate channel that expects message
\* `want`: "ok", "err" (unexpected message or channel closed) or "block"
RecvOutcome(chan, o, want) ==
    IF chan # <<>>
    THEN IF Head(chan) = want THEN "ok" ELSE "err"
    ELSE IF HasWriter(o, "intermediate_sender") THEN "block" ELSE "err"

\* -------------------------------------------------- texts written to files
Digits == <<"0", "1", "2", "3", "4", "5", "6", "7", "8", "9">>

\* the literal `max`
MaxText == <<"m", "a", "x">>

RECURSIVE DecimalText(_)
\* decimal digits of n >= 0, most significant first
DecimalText(n) ==
    IF n < 10 THEN <<Digits[n + 1]>>
    ELSE Append(DecimalText(n \div 10), Digits[(n % 10) + 1])

\* i64::to_string
to_string(n) == IF n < 0 THEN <<"-">> \o DecimalText(0 - n) ELSE DecimalText(n)

\* the limits a LinuxPids can carry here
Limits == ((0 - LimitBound)..LimitBound) \cup {1000}

\* arguments of Controller::apply: linux_resources.pids and the target pid
PidsInputs == [present : BOOLEAN, limit : Limits, pid : 1..MaxPid]

\* the pid controller is not running
PidsIdle ==
    /\ pidsIn = [present |-> FALSE, limit |-> 0, pid |-> 1]
    /\ pidsPc = "idle"
    /\ pidsFailedAt = ""
    /\ dirExists = FALSE
    /\ pidsMax = MaxText
    /\ cgroupProcs = <<>>
    /\ pidsLog = <<>>

\* ------------------------------------------------------------------- Init
Init ==
    /\ PidsIdle
    /\ args \in ArgsSet
    /\ pc = "start"
    /\ failedAt = ""
    /\ trace = <<>>
    /\ dumpable \in BOOLEAN
    /\ id \in {RootId, OuterId}
    /\ rlimitsSet = 0
    /\ inPidNs = FALSE
    /\ add_task_args = <<>>
    /\ apply_called = 0
    /\ mainChan = <<>>
    /\ interChan = <<>>
    /\ open = [p \in Procs |->
                 CASE p = "main"  -> {"main_receiver", "intermediate_sender"}
                   [] p = "inter" -> {"main_sender", "intermediate_sender",
                                      "intermediate_receiver"}
                   [] OTHER       -> {}]
    /\ myPid \in 2..MaxPid
    /\ forkPid = 0
    /\ initSelfPid = 0
    /\ initPc = "none"
    /\ mainAcked = FALSE

\* ------------------------------------------------- control flow of the code
\* variant: the error of a fallible call is dropped and the run goes on
Propagate_ignored(ok, next) == next

\* the `?` operator: continue on Ok, return the error to the caller on Err
Propagate(ok, next) == IF ok THEN next ELSE "failed"

\* `.unwrap()`: continue on Ok, panic on Err
Unwrap(ok, next) == IF ok THEN next ELSE "panicked"

\* `if let Some(user_namespace) = namespaces.get(User)`
AfterStart(a) == IF a.userNs # "none" THEN "unshare_user" ELSE "get_process"

\* variant: the handshake runs for every requested user namespace
NeedsHandshake_anyUserNs(a) == a.userNs # "none"

\* `if user_namespace.path().is_none()`
NeedsHandshake(a) == a.userNs = "new"

\* variant: set_id sits inside the `path().is_none()` block
AfterUnshareUser_setIdOnlyNew(a) ==
    IF a.userNs = "new" THEN "set_dumpable_true" ELSE "get_process"

AfterUnshareUser(a) == IF NeedsHandshake(a) THEN "set_dumpable_true" ELSE "set_id"

\* variant: the pid namespace is entered only after the fork, i.e. not here
AfterRlimits_noPidNs(a) == "cgroups"

\* `if let Some(pid_namespace) = namespaces.get(Pid)`
AfterRlimits(a) == IF a.pidNs # "none" THEN "unshare_pid" ELSE "cgroups"

\* variant: the loop is left after the first rlimit
NextRlimit_onlyFirst(a, n) ==
    IF n < 1 /\ n < a.nRlimits THEN "set_rlimit" ELSE AfterRlimits(a)

\* `for rlimit in rlimits`, n of them done
NextRlimit(a, n) == IF n < a.nRlimits THEN "set_rlimit" ELSE AfterRlimits(a)

\* variant: the rootless check is missing
CgroupStepRuns_always(a) == TRUE

\* `if args.rootless.is_none()`
CgroupStepRuns(a) == ~a.rootless

\* variant: the `if init` test is missing
ApplyDue_noInitTest(resources, init) == resources

\* `if let Some(resources) = resources { if init { ... } }`
ApplyDue(resources, init) == resources /\ init

\* ---------------------------------------------------------- apply_cgroups
\* the fallible calls of apply_cgroups: Process::myself, add_task, apply
CgroupFailures == {"myself", "add_task", "apply"}

\* what can go wrong inside apply_cgroups
CgroupOutcomes == {"ok", "myself_err", "add_task_err", "apply_err"}

\* variant: add_task sits inside `if let Some(resources)`
apply_cgroups_taskInsideIf(tasks, applied, pid, resources, init, outcome) ==
    IF outcome = "myself_err"
    THEN [tasks |-> tasks, applied |-> applied, err |-> "myself"]
    ELSE IF ~resources
    THEN [tasks |-> tasks, applied |-> applied, err |-> ""]
    ELSE IF outcome = "add_task_err"
    THEN [tasks |-> Append(tasks, pid), applied |-> applied, err |-> "add_task"]
    ELSE IF init
    THEN [tasks |-> Append(tasks, pid), applied |-> applied + 1,
          err |-> IF outcome = "apply_err" THEN "apply" ELSE ""]
    ELSE [tasks |-> Append(tasks, pid), applied |-> applied, err |-> ""]

\* apply_cgroups(cmanager, resources, init) run by process `pid` against a
\* manager that has recorded `tasks` and `applied`; `outcome` says which call
\* (if any) returns Err.  Result: the manager afterwards and the call that
\* failed ("" for Ok).
apply_cgroups(tasks, applied, pid, resources, init, outcome) ==
    IF outcome = "myself_err"
    THEN [tasks |-> tasks, applied |-> applied, err |-> "myself"]
    ELSE IF outcome = "add_task_err"
    THEN [tasks |-> Append(tasks, pid), applied |-> applied, err |-> "add_task"]
    ELSE IF ApplyDue(resources, init)
    THEN [tasks |-> Append(tasks, pid), applied |-> applied + 1,
          err |-> IF outcome = "apply_err" THEN "apply" ELSE ""]
    ELSE [tasks |-> Append(tasks, pid), applied |-> applied, err |-> ""]

\* ------------------------------------------------ frames used by the actions
constVars == <<args, myPid, pidsVars>>
procVars == <<dumpable, id, rlimitsSet, inPidNs>>
cgroupVars == <<add_task_args, apply_called>>
chanVars == <<mainChan, interChan, open>>
initVars == <<forkPid, initSelfPid, initPc>>

\* the intermediate moves from step `step` to `next`, recording the operation
\* when it succeeded and the failing step when it did not
Goto(step, next) ==
    /\ pc' = next
    /\ failedAt' = IF next \in {"failed", "panicked"} THEN step ELSE failedAt
    /\ trace' = IF next \in {"failed", "panicked"} THEN trace
                ELSE Append(trace, step)

\* variant of line 36: the request is sent and the ack is not waited for
IdentifierMappingRequest_noWait ==
    /\ pc = "identifier_mapping_request"
    /\ LET ok == "main_sender" \in open["inter"] /\ HasReader(open, "main_receiver")
       IN /\ pc' = IF ok THEN "set_dumpable_false" ELSE "failed"
          /\ failedAt' = IF ok THEN failedAt ELSE "identifier_mapping_request"
          /\ trace' = IF ok THEN Append(trace, "identifier_mapping_request") ELSE trace
          /\ mainChan' = IF ok THEN Append(mainChan, MappingRequestMsg) ELSE mainChan
    /\ UNCHANGED <<constVars, procVars, cgroupVars, interChan, open, initVars,
                   mainAcked>>

\* variant of lines 98-100: the wait for InitReady is missing after the close
CloseInitSender_noWait ==
    /\ pc = "close_init_sender"
    /\ \E ok \in BOOLEAN :
          /\ pc' = IF ok THEN "intermediate_ready" ELSE "failed"
          /\ failedAt' = IF ok THEN failedAt ELSE "close_init_sender"
          /\ trace' = IF ok THEN Append(trace, "close_init_sender") ELSE trace
          /\ open' = [open EXCEPT !["inter"] = @ \ {"init_sender"}]
    /\ UNCHANGED <<constVars, procVars, cgroupVars, mainChan, interChan, initVars,
                   mainAcked>>

\* --------------------------------------- container_intermediate, step by step
\* lines 18-21: `spec.linux().as_ref().context("no linux in spec")?`
Start ==
    /\ pc = "start"
    /\ Goto("start", Propagate(args.linux, AfterStart(args)))
    /\ UNCHANGED <<constVars, procVars, cgroupVars, chanVars, initVars, mainAcked>>

\* lines 28-30: unshare_or_setns(user_namespace)
UnshareUser ==
    /\ pc = "unshare_user"
    /\ \E ok \in BOOLEAN :
          Goto("unshare_user", Propagate(ok, AfterUnshareUser(args)))
    /\ UNCHANGED <<constVars, procVars, cgroupVars, chanVars, initVars, mainAcked>>

\* line 35: prctl::set_dumpable(true).unwrap()
SetDumpableTrue ==
    /\ pc = "set_dumpable_true"
    /\ \E ok \in BOOLEAN :
          /\ Goto("set_dumpable_true", Unwrap(ok, "identifier_mapping_request"))
          /\ dumpable' = IF ok THEN TRUE ELSE dumpable
    /\ UNCHANGED <<constVars, id, rlimitsSet, inPidNs, cgroupVars, chanVars,
                   initVars, mainAcked>>

\* variant of line 36: the request is not written, the ack is waited for
IdentifierMappingRequest_notSent ==
    /\ pc = "identifier_mapping_request"
    /\ Goto("identifier_mapping_request", "wait_for_mapping_ack")
    /\ UNCHANGED <<constVars, procVars, cgroupVars, chanVars, initVars, mainAcked>>

\* line 36: main_sender.identifier_mapping_request()?
IdentifierMappingRequest ==
    /\ pc = "identifier_mapping_request"
    /\ LET ok == "main_sender" \in open["inter"] /\ HasReader(open, "main_receiver")
       IN /\ Goto("identifier_mapping_request", Propagate(ok, "wait_for_mapping_ack"))
          /\ mainChan' = IF ok THEN Append(mainChan, MappingRequestMsg) ELSE mainChan
    /\ UNCHANGED <<constVars, procVars, cgroupVars, interChan, open, initVars,
                   mainAcked>>

\* variant of line 37: a read that finds nothing gives up with an error
WaitForMappingAck_timeout ==
    /\ pc = "wait_for_mapping_ack"
    /\ LET r == RecvOutcome(interChan, open, MappingAckMsg)
       IN /\ Goto("wait_for_mapping_ack", Propagate(r = "ok", "set_dumpable_false"))
          /\ interChan' = IF interChan # <<>> THEN Tail(interChan) ELSE interChan
    /\ UNCHANGED <<constVars, procVars, cgroupVars, mainChan, open, initVars,
                   mainAcked>>

\* line 37: intermediate_receiver.wait_for_mapping_ack()?
WaitForMappingAck ==
    /\ pc = "wait_for_mapping_ack"
    /\ LET r == RecvOutcome(interChan, open, MappingAckMsg)
       IN /\ r # "block"
          /\ Goto("wait_for_mapping_ack", Propagate(r = "ok", "set_dumpable_false"))
          /\ interChan' = IF interChan # <<>> THEN Tail(interChan) ELSE interChan
    /\ UNCHANGED <<constVars, procVars, cgroupVars, mainChan, open, initVars,
                   mainAcked>>

\* variant of line 38: the flag is left set
SetDumpableFalse_leftSet ==
    /\ pc = "set_dumpable_false"
    /\ \E ok \in BOOLEAN :
          /\ Goto("set_dumpable_false", Unwrap(ok, "set_id"))
          /\ dumpable' = dumpable
    /\ UNCHANGED <<constVars, id, rlimitsSet, inPidNs, cgroupVars, chanVars,
                   initVars, mainAcked>>

\* line 38: prctl::set_dumpable(false).unwrap()
SetDumpableFalse ==
    /\ pc = "set_dumpable_false"
    /\ \E ok \in BOOLEAN :
          /\ Goto("set_dumpable_false", Unwrap(ok, "set_id"))
          /\ dumpable' = IF ok THEN FALSE ELSE dumpable
    /\ UNCHANGED <<constVars, id, rlimitsSet, inPidNs, cgroupVars, chanVars,
                   initVars, mainAcked>>

\* lines 47-49: command.set_id(Uid::from_raw(0), Gid::from_raw(0))?
SetId ==
    /\ pc = "set_id"
    /\ \E ok \in BOOLEAN :
          /\ Goto("set_id", Propagate(ok, "get_process"))
          /\ id' = IF ok THEN RootId ELSE id
    /\ UNCHANGED <<constVars, dumpable, rlimitsSet, inPidNs, cgroupVars, chanVars,
                   initVars, mainAcked>>

\* line 53: `spec.process().as_ref().context("no process in spec")?`
GetProcess ==
    /\ pc = "get_process"
    /\ Goto("get_process", Propagate(args.process, NextRlimit(args, 0)))
    /\ UNCHANGED <<constVars, procVars, cgroupVars, chanVars, initVars, mainAcked>>

\* line 56: command.set_rlimit(rlimit)? for the next rlimit of the list
SetRlimit ==
    /\ pc = "set_rlimit"
    /\ \E ok \in BOOLEAN :
          /\ Goto("set_rlimit", Propagate(ok, NextRlimit(args, rlimitsSet + 1)))
          /\ rlimitsSet' = IF ok THEN rlimitsSet + 1 ELSE rlimitsSet
    /\ UNCHANGED <<constVars, dumpable, id, inPidNs, cgroupVars, chanVars,
                   initVars, mainAcked>>

\* lines 62-64: unshare_or_setns(pid_namespace)
UnsharePid ==
    /\ pc = "unshare_pid"
    /\ \E ok \in BOOLEAN :
          /\ Goto("unshare_pid", Propagate(ok, "cgroups"))
          /\ inPidNs' = ok
    /\ UNCHANGED <<constVars, dumpable, id, rlimitsSet, cgroupVars, chanVars,
                   initVars, mainAcked>>

\* lines 69-76: the cgroup step
Cgroups ==
    /\ pc = "cgroups"
    /\ IF CgroupStepRuns(args)
       THEN \E outcome \in CgroupOutcomes :
               LET r == apply_cgroups(add_task_args, apply_called, myPid,
                                      args.resources, args.init, outcome)
               IN /\ Goto(IF r.err = "" THEN "cgroups" ELSE r.err,
                       Propagate(r.err = "", "init_channel"))
                  /\ add_task_args' = r.tasks
                  /\ apply_called' = r.applied
       ELSE /\ Goto("cgroups", "init_channel")
            /\ UNCHANGED cgroupVars
    /\ UNCHANGED <<constVars, procVars, chanVars, initVars, mainAcked>>

\* closing endpoint `e` of process `p`; after a failed close the descriptor may
\* or may not still be open
CloseIn(o, p, e, ok, kept) ==
    IF ok \/ ~kept THEN [o EXCEPT ![p] = @ \ {e}] ELSE o

\* line 79: channel::init_channel()?
InitChannel ==
    /\ pc = "init_channel"
    /\ \E ok \in BOOLEAN :
          /\ Goto("init_channel", Propagate(ok, "fork"))
          /\ open' = IF ok
                     THEN [open EXCEPT !["inter"] = @ \cup {"init_sender", "init_receiver"}]
                     ELSE open
    /\ UNCHANGED <<constVars, procVars, cgroupVars, mainChan, interChan, initVars,
                   mainAcked>>

\* the pid a process forked by the intermediate sees for itself: 1 when it is
\* the first process of a new pid namespace, some pid of the joined namespace
\* when the namespace was joined by path, the forked pid otherwise
SelfPids(a, entered, forked) ==
    IF ~entered THEN {forked}
    ELSE IF a.pidNs = "new" THEN {1} ELSE 2..MaxPid

\* lines 84-93: fork::container_fork(closure)?; the child starts with a copy of
\* every descriptor of the intermediate
Fork ==
    /\ pc = "fork"
    /\ \/ /\ Goto("fork", Propagate(FALSE, "close_intermediate_sender"))
          /\ UNCHANGED <<open, initVars>>
       \/ \E child \in (2..MaxPid) \ {myPid} :
          \E self \in SelfPids(args, inPidNs, child) :
             /\ Goto("fork", Propagate(TRUE, "close_intermediate_sender"))
             /\ forkPid' = child
             /\ initSelfPid' = self
             /\ initPc' = "close_init_sender"
             /\ open' = [open EXCEPT !["init"] = open["inter"]]
    /\ UNCHANGED <<constVars, procVars, cgroupVars, mainChan, interChan, mainAcked>>

\* lines 95-97: intermediate_sender.close()?
CloseIntermediateSender ==
    /\ pc = "close_intermediate_sender"
    /\ \E ok \in BOOLEAN : \E kept \in BOOLEAN :
          /\ Goto("close_intermediate_sender", Propagate(ok, "close_init_sender"))
          /\ open' = CloseIn(open, "inter", "intermediate_sender", ok, kept)
    /\ UNCHANGED <<constVars, procVars, cgroupVars, mainChan, interChan, initVars,
                   mainAcked>>

\* lines 98-100: init_sender.close()?
CloseInitSender ==
    /\ pc = "close_init_sender"
    /\ \E ok \in BOOLEAN : \E kept \in BOOLEAN :
          /\ Goto("close_init_sender", Propagate(ok, "wait_for_init_ready"))
          /\ open' = CloseIn(open, "inter", "init_sender", ok, kept)
    /\ UNCHANGED <<constVars, procVars, cgroupVars, mainChan, interChan, initVars,
                   mainAcked>>

\* lines 103-105: intermediate_receiver.wait_for_init_ready()?
WaitForInitReady ==
    /\ pc = "wait_for_init_ready"
    /\ LET r == RecvOutcome(interChan, open, InitReadyMsg)
       IN /\ r # "block"
          /\ Goto("wait_for_init_ready", Propagate(r = "ok", "intermediate_ready"))
          /\ interChan' = IF interChan # <<>> THEN Tail(interChan) ELSE interChan
    /\ UNCHANGED <<constVars, procVars, cgroupVars, mainChan, open, initVars,
                   mainAcked>>

\* variant: the pid the init process sees for itself is sent
ReadyPid_self(forked, self) == self

\* the pid handed to intermediate_ready: `pid` of line 84, the fork's result
ReadyPid(forked, self) == forked

\* lines 108-110: main_sender.intermediate_ready(pid)?, then Ok(())
IntermediateReady ==
    /\ pc = "intermediate_ready"
    /\ LET ok == "main_sender" \in open["inter"] /\ HasReader(open, "main_receiver")
       IN /\ Goto("intermediate_ready", Propagate(ok, "done"))
          /\ mainChan' = IF ok
                         THEN Append(mainChan,
                                     IntermediateReadyMsg(ReadyPid(forkPid, initSelfPid)))
                         ELSE mainChan
    /\ UNCHANGED <<constVars, procVars, cgroupVars, interChan, open, initVars,
                   mainAcked>>

\* ------------------------------------------------------- the init process
\* the closure's error ends the child process, which drops its descriptors
InitStep(next, o) ==
    /\ initPc' = next
    /\ open' = IF next = "failed" THEN [o EXCEPT !["init"] = {}] ELSE o
    /\ UNCHANGED <<constVars, pc, failedAt, trace, procVars, cgroupVars, mainChan,
                   forkPid, initSelfPid, mainAcked>>

\* lines 86-88: init_sender.close()? in the child
InitCloseInitSender ==
    /\ initPc = "close_init_sender"
    /\ \E ok \in BOOLEAN : \E kept \in BOOLEAN :
          InitStep(Propagate(ok, "close_main_sender"),
                   CloseIn(open, "init", "init_sender", ok, kept))
    /\ UNCHANGED interChan

\* variant of lines 89-91: the child keeps its copy of the main sender
InitCloseMainSender_notClosed ==
    /\ initPc = "close_main_sender"
    /\ InitStep("container_init", open)
    /\ UNCHANGED interChan

\* lines 89-91: main_sender.close()? in the child
InitCloseMainSender ==
    /\ initPc = "close_main_sender"
    /\ \E ok \in BOOLEAN : \E kept \in BOOLEAN :
          InitStep(Propagate(ok, "container_init"),
                   CloseIn(open, "init", "main_sender", ok, kept))
    /\ UNCHANGED interChan

\* line 92: container_init(args, intermediate_sender, init_receiver): init
\* setup, which ends by sending InitReady on the intermediate channel, or fails
ContainerInit ==
    /\ initPc = "container_init"
    /\ \E ok \in BOOLEAN :
          LET sent == /\ ok
                      /\ "intermediate_sender" \in open["init"]
                      /\ HasReader(open, "intermediate_receiver")
          IN /\ InitStep(Propagate(sent, "ready"), open)
             /\ interChan' = IF sent THEN Append(interChan, InitReadyMsg)
                             ELSE interChan

\* ------------------------------------------------------- the main process
\* main writes the uid/gid maps and answers the mapping request
MainAck ==
    /\ ~mainAcked
    /\ \E i \in 1..Len(mainChan) : mainChan[i] = MappingRequestMsg
    /\ "intermediate_sender" \in open["main"]
    /\ HasReader(open, "intermediate_receiver")
    /\ interChan' = Append(interChan, MappingAckMsg)
    /\ mainAcked' = TRUE
    /\ UNCHANGED <<constVars, pc, failedAt, trace, procVars, cgroupVars, mainChan,
                   open, initVars>>

\* main goes away (or closes its ends) while the bootstrap is running
MainExit ==
    /\ open["main"] # {}
    /\ pc \notin {"done", "failed", "panicked"}
    /\ open' = [open EXCEPT !["main"] = {}]
    /\ UNCHANGED <<constVars, pc, failedAt, trace, procVars, cgroupVars, mainChan,
                   interChan, initVars, mainAcked>>

\* -------------------------------------------------------------- behaviours
Next ==
    \/ Start
    \/ UnshareUser
    \/ SetDumpableTrue
    \/ IdentifierMappingRequest
    \/ WaitForMappingAck
    \/ SetDumpableFalse
    \/ SetId
    \/ GetProcess
    \/ SetRlimit
    \/ UnsharePid
    \/ Cgroups
    \/ InitChannel
    \/ Fork
    \/ CloseIntermediateSender
    \/ CloseInitSender
    \/ WaitForInitReady
    \/ IntermediateReady
    \/ InitCloseInitSender
    \/ InitCloseMainSender
    \/ ContainerInit
    \/ MainAck
    \/ MainExit

Spec == Init /\ [][Next]_vars

\* the steps of the intermediate process
InterNext ==
    \/ Start \/ UnshareUser \/ SetDumpableTrue \/ IdentifierMappingRequest
    \/ WaitForMappingAck \/ SetDumpableFalse \/ SetId \/ GetProcess \/ SetRlimit
    \/ UnsharePid \/ Cgroups \/ InitChannel \/ Fork \/ CloseIntermediateSender
    \/ CloseInitSender \/ WaitForInitReady \/ IntermediateReady

\* the steps of the init process
InitNext == InitCloseInitSender \/ InitCloseMainSender \/ ContainerInit

\* each of the three processes is an operating-system process of its own: one
\* that can take a step is eventually scheduled, and a main process that is
\* there to answer a mapping request eventually answers it
FairSpec ==
    /\ Spec
    /\ WF_vars(InterNext)
    /\ WF_vars(InitNext)
    /\ WF_vars(MainAck)

\* ------------------------------------------- the pid controller (pids.rs)
\* variant: zero is written as a numeral
PidsLimitText_zeroIsNumeral(limit) ==
    IF limit >= 0 THEN to_string(limit) ELSE MaxText

\* Pids::apply, lines 36-40: the text written to pids.max for a limit
PidsLimitText(limit) ==
    IF limit > 0 THEN to_string(limit) ELSE MaxText

\* variant: the pid is written inside `if let Some(pids)`
PidsAfterCreateDir_procsInsideIf(present) ==
    IF present THEN "write_limit" ELSE "done"

\* Controller::apply, line 25: `if let Some(pids) = &linux_resources.pids`
PidsAfterCreateDir(present) ==
    IF present THEN "write_limit" ELSE "write_procs"

\* the controller moves on, or returns the error of the step that failed
PidsGoto(step, next) ==
    /\ pidsPc' = next
    /\ pidsFailedAt' = IF next = "failed" THEN step ELSE pidsFailedAt

\* the variables of the bootstrap, which the controller does not touch
bootVars == <<args, pc, failedAt, trace, dumpable, id, rlimitsSet, inPidNs,
              add_task_args, apply_called, mainChan, interChan, open, myPid,
              forkPid, initSelfPid, initPc, mainAcked>>

\* Controller::apply, line 23: fs::create_dir_all(cgroup_root)?
PidsCreateDir ==
    /\ pidsPc = "create_dir"
    /\ \E ok \in BOOLEAN :
          /\ PidsGoto("create_dir", Propagate(ok, PidsAfterCreateDir(pidsIn.present)))
          /\ dirExists' = (dirExists \/ ok)
          /\ pidsLog' = IF ok THEN Append(pidsLog, [file |-> "dir", text |-> <<>>])
                        ELSE pidsLog
    /\ UNCHANGED <<bootVars, pidsIn, pidsMax, cgroupProcs>>

\* Controller::apply, line 26, and Pids::apply, lines 35-44:
\* write_cgroup_file_str(root_path.join("pids.max"), &limit)?
PidsWriteLimit ==
    /\ pidsPc = "write_limit"
    /\ \E ok \in BOOLEAN :
          LET limit == PidsLimitText(pidsIn.limit)
          IN /\ PidsGoto("write_limit", Propagate(ok /\ dirExists, "write_procs"))
             /\ pidsMax' = IF ok /\ dirExists THEN limit ELSE pidsMax
             /\ pidsLog' = IF ok /\ dirExists
                           THEN Append(pidsLog, [file |-> "pids.max", text |-> limit])
                           ELSE pidsLog
    /\ UNCHANGED <<bootVars, pidsIn, dirExists, cgroupProcs>>

\* Controller::apply, lines 29-30:
\* write_cgroup_file(cgroup_root.join(CGROUP_PROCS), pid)?, then Ok(())
PidsWriteProcs ==
    /\ pidsPc = "write_procs"
    /\ \E ok \in BOOLEAN :
          LET text == to_string(pidsIn.pid)
          IN /\ PidsGoto("write_procs", Propagate(ok /\ dirExists, "done"))
             /\ cgroupProcs' = IF ok /\ dirExists THEN text ELSE cgroupProcs
             /\ pidsLog' = IF ok /\ dirExists
                           THEN Append(pidsLog, [file |-> "cgroup.procs", text |-> text])
                           ELSE pidsLog
    /\ UNCHANGED <<bootVars, pidsIn, dirExists, pidsMax>>

\* the bootstrap is not running
BootIdle ==
    /\ args = [linux |-> TRUE, process |-> TRUE, userNs |-> "none",
               pidNs |-> "none", nRlimits |-> 0, rootless |-> FALSE,
               resources |-> TRUE, init |-> TRUE]
    /\ pc = "idle"
    /\ failedAt = ""
    /\ trace = <<>>
    /\ dumpable = FALSE
    /\ id = RootId
    /\ rlimitsSet = 0
    /\ inPidNs = FALSE
    /\ add_task_args = <<>>
    /\ apply_called = 0
    /\ mainChan = <<>>
    /\ interChan = <<>>
    /\ open = [p \in Procs |-> {}]
    /\ myPid = 2
    /\ forkPid = 0
    /\ initSelfPid = 0
    /\ initPc = "none"
    /\ mainAcked = FALSE

\* one call of Controller::apply of the pid controller, for any resources and
\* target pid, on a cgroup directory that exists or not; pids.max holds what
\* the tests' fixtures put there
PidsInit ==
    /\ BootIdle
    /\ pidsIn \in PidsInputs
    /\ pidsPc = "create_dir"
    /\ pidsFailedAt = ""
    /\ dirExists \in BOOLEAN
    /\ pidsMax \in {to_string(0), to_string(1000), MaxText}
    /\ cgroupProcs = <<>>
    /\ pidsLog = <<>>

PidsNext == PidsCreateDir \/ PidsWriteLimit \/ PidsWriteProcs

PidsSpec == PidsInit /\ [][PidsNext]_vars

\* ------------------------------------------------- vocabulary of the claims
\* position of the first occurrence of operation `ev` in the trace, 0 if none
Pos(ev) ==
    IF \E i \in 1..Len(trace) : trace[i] = ev
    THEN CHOOSE i \in 1..Len(trace) :
            trace[i] = ev /\ \A j \in 1..(i - 1) : trace[j] # ev
    ELSE 0

Did(ev) == Pos(ev) > 0

\* operation a was performed, and b only after it
Before(a, b) == Did(a) /\ (Did(b) => Pos(a) < Pos(b))

\* apply_cgroups was called and has returned (Ok or Err)
ApplyCgroupsReturned ==
    ~args.rootless /\ (Did("cgroups") \/ failedAt \in CgroupFailures)

\* the init process has been forked
InitForked == initPc # "none"

\* the IntermediateReady messages written to main
ReadyMsgs == {mainChan[i] : i \in 1..Len(mainChan)} \ {MappingRequestMsg}

HandshakeOps == {"set_dumpable_true", "identifier_mapping_request",
                 "wait_for_mapping_ack", "set_dumpable_false"}

IsHandshakeOp(ev) == ev \in HandshakeOps

HandshakeOrder == <<"set_dumpable_true", "identifier_mapping_request",
                    "wait_for_mapping_ack", "set_dumpable_false">>

\* the steps that follow the user-namespace block
LaterStepTaken ==
    \/ Did("get_process") \/ Did("set_rlimit") \/ Did("unshare_pid")
    \/ Did("cgroups") \/ Did("init_channel") \/ Did("fork")
    \/ rlimitsSet > 0 \/ inPidNs \/ add_task_args # <<>> \/ apply_called > 0
    \/ InitForked \/ forkPid # 0

\* ------------------------------------------------------------------ claims
\* C1 (as stated): for every call of apply_cgroups, the manager's apply is
\* invoked if and only if init is true and resources is present.
C1_AsStated ==
    ApplyCgroupsReturned =>
        ((apply_called > 0) <=> (args.init /\ args.resources))

\* C1 (amended): for every call of apply_cgroups, apply is invoked (once) if
\* and only if init is true, resources is present and the calls before it
\* (Process::myself, add_task) returned Ok; it is never invoked when init is
\* false and never when resources is absent.
C1_ApplyIffInitAndResources ==
    /\ apply_called <= 1
    /\ ApplyCgroupsReturned =>
          ((apply_called = 1) <=>
              (args.init /\ args.resources /\ failedAt \notin {"myself", "add_task"}))
    /\ (~args.init \/ ~args.resources) => apply_called = 0

C1_Witness ==
    ApplyCgroupsReturned /\ pc = "init_channel" /\ apply_called = 1

\* C2 (as stated): in every run in which apply_cgroups is called, add_task is
\* invoked exactly once, with the intermediate's own pid.
C2_AsStated ==
    ApplyCgroupsReturned => add_task_args = <<myPid>>

\* C2 (amended): in every run in which apply_cgroups is called and the lookup
\* of the process's own pid (Process::myself) succeeds, add_task is invoked
\* exactly once, with the intermediate's own pid, whatever resources and init
\* are; when that lookup fails add_task is not invoked; it is never invoked
\* twice or with another pid.
C2_AddTaskOnce ==
    /\ Len(add_task_args) <= 1
    /\ \A i \in 1..Len(add_task_args) : add_task_args[i] = myPid
    /\ ApplyCgroupsReturned =>
          add_task_args = IF failedAt = "myself" THEN <<>> ELSE <<myPid>>

C2_Witness ==
    /\ ApplyCgroupsReturned /\ pc = "init_channel"
    /\ ~args.resources /\ ~args.init
    /\ add_task_args = <<myPid>>

\* C3: in rootless mode no cgroup operation is performed (neither add_task nor
\* apply), for any init and resources, and the cgroup step cannot end the run:
\* the run goes on to the creation of the init process.
C3_RootlessNoCgroups ==
    args.rootless =>
        /\ add_task_args = <<>>
        /\ apply_called = 0
        /\ failedAt \notin CgroupFailures
        /\ (InitForked \/ Did("init_channel")) => Before("cgroups", "init_channel")

C3_Witness ==
    args.rootless /\ args.init /\ args.resources /\ InitForked /\ add_task_args = <<>>

\* C4: in non-rootless mode the init process exists only once the intermediate
\* is attached to the cgroup (add_task returned Ok, and apply too when it is
\* due), and a failed attachment means the init process is never forked.
C4_AttachedBeforeFork ==
    /\ (~args.rootless /\ (InitForked \/ Did("fork"))) =>
          /\ Before("cgroups", "fork")
          /\ add_task_args = <<myPid>>
          /\ (args.init /\ args.resources) => apply_called = 1
    /\ failedAt \in CgroupFailures => (~InitForked /\ forkPid = 0 /\ pc = "failed")

C4_Witness ==
    ~args.rootless /\ InitForked /\ apply_called = 1 /\ add_task_args = <<myPid>>

\* the handshake operations performed so far, in order
HandshakeTrace == SelectSeq(trace, IsHandshakeOp)

IsPrefix(p, q) == Len(p) <= Len(q) /\ \A i \in 1..Len(p) : p[i] = q[i]

\* C5: in every successful run in which a user namespace is newly created the
\* handshake operations occur exactly in the order set_dumpable(true), send
\* IdentifierMappingRequest, receive MappingAck, set_dumpable(false); in no run
\* is the dumpable flag cleared before the ack has been received.
C5_HandshakeOrder ==
    /\ IsPrefix(HandshakeTrace, HandshakeOrder)
    /\ (pc = "done" /\ args.userNs = "new") => HandshakeTrace = HandshakeOrder
    /\ Did("set_dumpable_false") => (mainAcked /\ Did("wait_for_mapping_ack"))
    /\ Did("wait_for_mapping_ack") =>
          (mainAcked /\ Did("identifier_mapping_request")
             /\ mainChan # <<>> /\ mainChan[1] = MappingRequestMsg)

C5_Witness ==
    pc = "done" /\ args.userNs = "new" /\ ~dumpable

\* C6: when no user namespace is requested, or it is joined by path, the
\* intermediate never sends IdentifierMappingRequest, never waits for MappingAck
\* and never changes the dumpable flag.
C6_HandshakeOnlyForNewUserNs ==
    /\ [](args.userNs # "new" =>
            /\ HandshakeTrace = <<>>
            /\ pc \notin HandshakeOps
            /\ failedAt \notin HandshakeOps
            /\ mainAcked = FALSE
            /\ \A i \in 1..Len(mainChan) : mainChan[i] # MappingRequestMsg)
    /\ [][args.userNs # "new" => dumpable' = dumpable]_vars

C6_Witness ==
    args.userNs = "path" /\ Did("unshare_user") /\ Did("set_id") /\ pc = "done"

\* C7: whenever a user namespace is requested, set_id(0, 0) comes after the
\* namespace entry and after the handshake (ack received, dumpable cleared) when
\* one runs, and before any rlimit, pid-namespace entry, cgroup attachment or
\* fork; a failed set_id ends the run before any of those steps.
C7_RootIdBeforeLaterSteps ==
    /\ (args.userNs # "none" /\ LaterStepTaken) =>
          /\ id = RootId
          /\ Pos("unshare_user") > 0 /\ Pos("unshare_user") < Pos("set_id")
          /\ Pos("set_id") < Pos("get_process")
          /\ args.userNs = "new" =>
                /\ Pos("wait_for_mapping_ack") > 0
                /\ Pos("wait_for_mapping_ack") < Pos("set_dumpable_false")
                /\ Pos("set_dumpable_false") < Pos("set_id")
    /\ failedAt = "set_id" => (pc = "failed" /\ ~LaterStepTaken)

C7_Witness ==
    /\ args.userNs = "new" /\ id = RootId
    /\ rlimitsSet > 0 /\ inPidNs /\ add_task_args # <<>> /\ InitForked

\* C8: if a pid namespace is requested, the init process is forked only after
\* the intermediate has entered it; nothing is forked before the entry and a
\* failed entry means no init process is ever forked.
C8_ForkAfterPidNsEntry ==
    /\ (args.pidNs # "none" /\ (InitForked \/ forkPid # 0 \/ Did("fork"))) =>
          /\ inPidNs
          /\ Pos("unshare_pid") > 0 /\ Pos("unshare_pid") < Pos("fork")
    /\ failedAt = "unshare_pid" => (pc = "failed" /\ ~InitForked /\ forkPid = 0)
    /\ (args.pidNs # "none" /\ ~inPidNs) => (~InitForked /\ forkPid = 0)

C8_Witness ==
    args.pidNs = "new" /\ inPidNs /\ InitForked /\ initSelfPid = 1

C10_ReadyAfterInitReady ==
    /\ (ReadyMsgs # {} \/ Did("intermediate_ready") \/ pc = "intermediate_ready") =>
          /\ Before("wait_for_init_ready", "intermediate_ready")
          /\ initPc = "ready"
    /\ Did("wait_for_init_ready") => initPc = "ready"
    /\ failedAt = "wait_for_init_ready" =>
          (pc = "failed" /\ ReadyMsgs = {} /\ ~Did("intermediate_ready"))

C10_Witness ==
    pc = "done" /\ ReadyMsgs # {} /\ initPc = "ready" /\ interChan = <<>>

\* -------------------------------------------------- endpoints and their use
\* the endpoints the intermediate uses after the fork: it reads InitReady and
\* writes IntermediateReady
InterUses == {"intermediate_receiver", "main_sender"}

\* the endpoints handed to container_init (line 92)
InitUses == {"intermediate_sender", "init_receiver"}

\* the endpoints the intermediate holds and does not use once the init process
\* exists
InterUnused == {"intermediate_sender", "init_sender", "init_receiver"}

\* C11: at the init fork boundary each of the two processes has closed every
\* endpoint it will never use, read ends and write ends alike, before its first
\* blocking read; the intermediate waiting for InitReady holds no endpoint it
\* does not use.
C11_AsStated ==
    /\ pc = "wait_for_init_ready" => open["inter"] \subseteq InterUses
    /\ initPc = "container_init" => open["init"] \subseteq InitUses

\* C13: a failure of any step ends the run in a failed outcome returned to the
\* caller, with no later step executed and no IntermediateReady sent.
C13_AsStated ==
    failedAt # "" =>
        /\ pc = "failed"
        /\ ReadyMsgs = {}
        /\ ~Did(failedAt)

\* C14: when the fork, the first close or the wait for InitReady fails, the
\* intermediate has closed every endpoint it owns and does not use by the time
\* it returns the error.
C14_AsStated ==
    (pc = "failed" /\ failedAt \in {"fork", "close_intermediate_sender",
                                    "wait_for_init_ready"}) =>
        open["inter"] \cap InterUnused = {}

\* number of set_rlimit operations in the trace
IsSetRlimit(ev) == ev = "set_rlimit"
RlimitOps == Len(SelectSeq(trace, IsSetRlimit))

\* a step that follows the rlimit loop has been taken
AfterRlimitStepTaken ==
    \/ Did("unshare_pid") \/ Did("cgroups") \/ Did("init_channel") \/ Did("fork")
    \/ inPidNs \/ add_task_args # <<>> \/ apply_called > 0
    \/ InitForked \/ forkPid # 0

\* C17: rlimits are applied one at a time, in order, after the user-namespace
\* step and before the pid-namespace entry; when applying the k-th one fails,
\* exactly the first k-1 have been applied, no later one is applied, and the run
\* fails without entering the pid namespace, attaching cgroups or forking init.
C17_RlimitsInOrder ==
    /\ rlimitsSet = RlimitOps /\ rlimitsSet <= args.nRlimits
    /\ rlimitsSet > 0 =>
          /\ Pos("get_process") < Pos("set_rlimit")
          /\ args.userNs # "none" => (Did("set_id") /\ Pos("set_id") < Pos("set_rlimit"))
    /\ AfterRlimitStepTaken => rlimitsSet = args.nRlimits
    /\ failedAt = "set_rlimit" =>
          /\ pc = "failed"
          /\ rlimitsSet < args.nRlimits
          /\ ~AfterRlimitStepTaken

C17_Witness ==
    failedAt = "set_rlimit" /\ rlimitsSet = 1 /\ args.nRlimits = 2
      /\ args.pidNs # "none" /\ ~args.rootless

\* the intermediate is inside the handshake: the flag has been set and not yet
\* cleared
InHandshake ==
    pc \in {"identifier_mapping_request", "wait_for_mapping_ack", "set_dumpable_false"}

\* C18 (as stated): in a run that enters the handshake the dumpable flag is true
\* exactly while the intermediate is inside it; in every state in which the
\* intermediate has left the handshake, a failed send or receive included, the
\* flag is false.
C18_AsStated ==
    Did("set_dumpable_true") => (dumpable <=> InHandshake)

\* C18 (amended): the flag is set true at handshake start and is true while
\* the intermediate is inside the handshake; it is false in every state in
\* which the intermediate has left the handshake by completing it (ack received
\* and set_dumpable(false) done); a run whose mapping request send or ack
\* receive failed returns with the flag still true.
C18_DumpableLifecycle ==
    /\ InHandshake => (dumpable /\ Did("set_dumpable_true"))
    /\ Did("set_dumpable_false") => (~dumpable /\ Before("wait_for_mapping_ack",
                                                        "set_dumpable_false"))
    /\ failedAt \in {"identifier_mapping_request", "wait_for_mapping_ack"} =>
          (pc = "failed" /\ dumpable)

C18_Witness ==
    Did("set_dumpable_false") /\ ~dumpable /\ InitForked

\* the intermediate is blocked in a read: nothing to read, a write end open
Blocked(at) ==
    pc = at /\ interChan = <<>> /\ HasWriter(open, "intermediate_sender")

\* C19: a blocking read has no timeout.  While main has not sent MappingAck and
\* a write end is open, the intermediate stays in the handshake: the wait
\* neither succeeds nor fails, no rlimit is applied and init is not forked.
\* While init has not sent InitReady and a write end is open, the wait for it
\* neither succeeds nor fails and IntermediateReady is not sent.
C19_NoTimeout ==
    /\ [][(Blocked("wait_for_mapping_ack") \/ Blocked("wait_for_init_ready"))
            => (pc' = pc /\ failedAt' = failedAt /\ trace' = trace)]_vars
    /\ []((~mainAcked /\ HasWriter(open, "intermediate_sender")) =>
            /\ ~Did("wait_for_mapping_ack")
            /\ failedAt # "wait_for_mapping_ack"
            /\ args.userNs = "new" /\ Did("unshare_user") =>
                  (pc # "done" /\ rlimitsSet = 0 /\ ~InitForked))
    /\ []((initPc # "ready" /\ HasWriter(open, "intermediate_sender")) =>
            /\ ~Did("wait_for_init_ready")
            /\ failedAt # "wait_for_init_ready"
            /\ ReadyMsgs = {} /\ pc # "done")

C19_Witness ==
    /\ Blocked("wait_for_init_ready")
    /\ initPc = "failed" /\ "intermediate_sender" \in open["main"]

\* the messages the intermediate writes to main in a complete run
MainMessages ==
    IF args.userNs = "new"
    THEN <<MappingRequestMsg, IntermediateReadyMsg(forkPid)>>
    ELSE <<IntermediateReadyMsg(forkPid)>>

\* C20: the messages written to main are a prefix of <<IdentifierMappingRequest,
\* IntermediateReady(pid)>> when a user namespace is newly created and of
\* <<IntermediateReady(pid)>> otherwise, each sent at most once and
\* IntermediateReady last; the init process has closed its copy of the main
\* sender before it runs init setup, so only the intermediate writes to main.
C20_MainMessages ==
    /\ IsPrefix(mainChan, MainMessages)
    /\ pc = "done" => mainChan = MainMessages
    /\ initPc \in {"container_init", "ready"} =>
          /\ "main_sender" \notin open["init"]
          /\ \A p \in Procs : "main_sender" \in open[p] => p = "inter"

C20_Witness ==
    pc = "done" /\ args.userNs = "new" /\ Len(mainChan) = 2 /\ initPc = "ready"

\* no step of the intermediate or of the init process has failed, and main is
\* there to answer
NoStepFails ==
    /\ pc \notin {"failed", "panicked"}
    /\ initPc # "failed"
    /\ open["main"] # {}

\* C15: provided no step fails, main answers the mapping request and init sends
\* InitReady, the intermediate eventually receives InitReady, sends
\* IntermediateReady and terminates, whatever the interleaving of the
\* intermediate and the init process after the fork.
C15_Terminates ==
    ([]NoStepFails) =>
        <>(/\ pc = "done"
           /\ Did("wait_for_init_ready")
           /\ ReadyMsgs # {}
           /\ interChan = <<>>)

\* InitReady is in flight before the intermediate has closed its ends
C15_Witness ==
    /\ pc = "close_intermediate_sender"
    /\ interChan = <<InitReadyMsg>>
    /\ initPc = "ready"
    /\ args.userNs = "new"

\* ---------------------------------------------- claims on the pid controller
IsDigit(c) == \E d \in 1..10 : Digits[d] = c

DigitValue(c) == (CHOOSE d \in 1..10 : Digits[d] = c) - 1

RECURSIVE NumeralValue(_)
\* the number a sequence of digits denotes
NumeralValue(t) ==
    IF t = <<>> THEN 0
    ELSE 10 * NumeralValue(SubSeq(t, 1, Len(t) - 1)) + DigitValue(t[Len(t)])

\* t is the decimal text of the positive number n: digits only, no leading zero
IsPositiveNumeral(t, n) ==
    /\ t # <<>>
    /\ \A i \in 1..Len(t) : IsDigit(t[i])
    /\ t[1] # "0"
    /\ NumeralValue(t) = n

\* the texts the controller has written to `file`
Written(file) ==
    {pidsLog[i].text : i \in {j \in 1..Len(pidsLog) : pidsLog[j].file = file}}

\* the files the controller has touched, in order
LogFiles == [i \in 1..Len(pidsLog) |-> pidsLog[i].file]

\* C12: for every limit L the pid controller writes to pids.max the decimal
\* text of L when L > 0 and exactly `max` when L <= 0; it never writes a zero or
\* negative numeral.
C12_PidsMaxText ==
    \A t \in Written("pids.max") :
        /\ pidsMax = t
        /\ pidsIn.limit > 0 => IsPositiveNumeral(t, pidsIn.limit)
        /\ pidsIn.limit <= 0 => t = MaxText
        /\ t[1] \notin {"0", "-"}

C12_Witness ==
    /\ pidsPc = "done"
    /\ pidsIn.limit = 1000
    /\ pidsMax = <<"1", "0", "0", "0">>

\* C16: Controller::apply of the pid controller creates the cgroup directory,
\* then writes pids.max (only when a pids limit is present), then writes the
\* target pid to cgroup.procs; the pid is attached also when no limit is
\* present, and it is not written when creating the directory or writing the
\* limit failed.
C16_ControllerOrder ==
    LET order == IF pidsIn.present THEN <<"dir", "pids.max", "cgroup.procs">>
                 ELSE <<"dir", "cgroup.procs">>
    IN /\ IsPrefix(LogFiles, order)
       /\ pidsPc = "done" =>
             /\ LogFiles = order
             /\ dirExists
             /\ cgroupProcs = to_string(pidsIn.pid)
             /\ IsPositiveNumeral(cgroupProcs, pidsIn.pid)
       /\ pidsFailedAt \in {"create_dir", "write_limit"} =>
             (pidsPc = "failed" /\ Written("cgroup.procs") = {} /\ cgroupProcs = <<>>)
       /\ ~pidsIn.present => Written("pids.max") = {}

C16_Witness ==
    /\ pidsPc = "done" /\ ~pidsIn.present
    /\ LogFiles = <<"dir", "cgroup.procs">>
    /\ cgroupProcs = to_string(pidsIn.pid)

====
